---- MODULE Spec2Model ----
(***************************************************************************)
(* Portfolio aggregation and caching layer of trizlySite:                  *)
(* GitHubPortfolioManager (src/portfolio/github-manager.js) over           *)
(* PORTFOLIO_CONFIG (src/portfolio/config.js).                             *)
(*                                                                         *)
(* JavaScript values are records [t |-> tag, v |-> sequence]; a string is  *)
(* the sequence of its characters (a long literal that the code never      *)
(* inspects character by character is kept as one element).                *)
(***************************************************************************)
EXTENDS Integers, Sequences, FiniteSets, TLC

(* ------------------------------------------------------------------ *)
(* JavaScript values                                                   *)
(* ------------------------------------------------------------------ *)
Str(s) == [t |-> "str", v |-> s]
Num(digits) == [t |-> "num", v |-> digits]
Undef == [t |-> "undef", v |-> <<>>]
Null == [t |-> "null", v |-> <<>>]
JsTrue == [t |-> "bool", v |-> <<"true">>]
JsFalse == [t |-> "bool", v |-> <<"false">>]
EmptyArray == [t |-> "arr", v |-> <<>>]
Arr(items) == [t |-> "arr", v |-> items]

\* ToBoolean: what `x || y`, `x && y` and `!x` test
Truthy(x) ==
  CASE x.t = "str" -> x.v # <<>>
    [] x.t = "num" -> x.v # <<"0">>
    [] x.t = "bool" -> x = JsTrue
    [] x.t = "arr" -> TRUE
    [] OTHER -> FALSE

\* x ?? y: only undefined and null give way
Or_nullish(x, y) == IF x \in {Undef, Null} THEN y ELSE x

\* x || y
Or(x, y) == IF Truthy(x) THEN x ELSE y

\* obj.field of an object literal: undefined when the property is absent
Get(obj, field) == IF field \in DOMAIN obj THEN obj[field] ELSE Undef

\* ToString, as a template literal `${x}` and localeCompare(x) apply it
JsToString(x) ==
  CASE x.t = "str" -> x.v
    [] x.t = "num" -> x.v
    [] x.t = "bool" -> x.v
    [] x.t = "undef" -> <<"undefined">>
    [] x.t = "null" -> <<"null">>
    [] OTHER -> <<>>

(* ------------------------------------------------------------------ *)
(* Characters and strings                                              *)
(* ------------------------------------------------------------------ *)
LowerLetters ==
  <<"a", "b", "c", "d", "e", "f", "g", "h", "i", "j", "k", "l", "m",
    "n", "o", "p", "q", "r", "s", "t", "u", "v", "w", "x", "y", "z">>
UpperLetters ==
  <<"A", "B", "C", "D", "E", "F", "G", "H", "I", "J", "K", "L", "M",
    "N", "O", "P", "Q", "R", "S", "T", "U", "V", "W", "X", "Y", "Z">>
Digits == <<"0", "1", "2", "3", "4", "5", "6", "7", "8", "9">>
\* the characters the regular expression's `.` does not match
LineTerminators == {"\n", "\r"}

\* the position of each letter in its alphabet
LowerIndex ==
  [c \in {LowerLetters[i] : i \in DOMAIN LowerLetters} |->
     CHOOSE i \in DOMAIN LowerLetters : LowerLetters[i] = c]
UpperIndex ==
  [c \in {UpperLetters[i] : i \in DOMAIN UpperLetters} |->
     CHOOSE i \in DOMAIN UpperLetters : UpperLetters[i] = c]
DigitIndex ==
  [c \in {Digits[i] : i \in DOMAIN Digits} |->
     CHOOSE i \in DOMAIN Digits : Digits[i] = c]

\* String.prototype.toUpperCase on one character (a string: "ß" gives "SS")
UpperOfChar(c) ==
  IF c \in DOMAIN LowerIndex THEN <<UpperLetters[LowerIndex[c]]>>
  ELSE IF c = "ß" THEN <<"S", "S">>
  ELSE <<c>>

\* String.prototype.toLowerCase on one character
LowerOfChar(c) ==
  IF c \in DOMAIN UpperIndex THEN LowerLetters[UpperIndex[c]] ELSE c

RECURSIVE toUpperCase(_)
toUpperCase(s) ==
  IF s = <<>> THEN <<>> ELSE UpperOfChar(Head(s)) \o toUpperCase(Tail(s))

toLowerCase(s) == [i \in DOMAIN s |-> LowerOfChar(s[i])]

\* Canonicalize of a case-insensitive, non-unicode regular expression: the
\* character's upper case when that is a single character, else the character
Canonicalize(c) ==
  IF Len(UpperOfChar(c)) = 1 THEN UpperOfChar(c)[1] ELSE c

(* ------------------------------------------------------------------ *)
(* PORTFOLIO_CONFIG                                                    *)
(* ------------------------------------------------------------------ *)
githubOwner == <<"Trizly-xyz">>

\* the literal of repoPattern /^portfolio(.+)$/i
PatternPrefix == <<"p", "o", "r", "t", "f", "o", "l", "i", "o">>

cacheDuration == 5 * 60 * 1000

expectedFiles ==
  [readme |-> <<"README.md">>, config |-> <<"portfolio.json">>,
   thumbnail |-> <<"thumbnail.png">>]

ConfiguredStaticPortfolios ==
  << [name |-> Str(<<"B", "l", "o", "x", "y">>),
      slug |-> Str(<<"b", "l", "o", "x", "y">>),
      path |-> Str(<<"/portfolio/bloxy/">>),
      description |-> Str(<<"Roblox community management bot">>),
      featured |-> JsTrue],
     [name |-> Str(<<"M", "a", "s", "o", "n">>),
      slug |-> Str(<<"m", "a", "s", "o", "n">>),
      path |-> Str(<<"/portfolio/mason/">>),
      description |-> Str(<<"Advanced Discord bot">>),
      featured |-> JsTrue],
     [name |-> Str(<<"T", "r", "i", "z", "l">>),
      slug |-> Str(<<"t", "r", "i", "z", "l">>),
      path |-> Str(<<"/portfolio/trizl/">>),
      description |-> Str(<<"Next-gen community tools">>),
      featured |-> JsTrue] >>

(* ------------------------------------------------------------------ *)
(* Pure helpers of GitHubPortfolioManager                              *)
(* ------------------------------------------------------------------ *)
NoMatch == [matched |-> FALSE, g1 |-> <<>>]

\* the match without the i flag
PatternMatch_caseSensitive(s) ==
  LET n == Len(PatternPrefix) IN
  IF /\ Len(s) > n
     /\ \A i \in 1..n : s[i] = PatternPrefix[i]
     /\ \A i \in (n + 1)..Len(s) : s[i] \notin LineTerminators
  THEN [matched |-> TRUE, g1 |-> SubSeq(s, n + 1, Len(s))]
  ELSE NoMatch

\* repoName.match(/^portfolio(.+)$/i): null, or the match with its group 1
PatternMatch(s) ==
  LET n == Len(PatternPrefix) IN
  IF /\ Len(s) > n
     /\ \A i \in 1..n : Canonicalize(s[i]) = Canonicalize(PatternPrefix[i])
     /\ \A i \in (n + 1)..Len(s) : s[i] \notin LineTerminators
  THEN [matched |-> TRUE, g1 |-> SubSeq(s, n + 1, Len(s))]
  ELSE NoMatch

\* the extractor without the capital
extractPortfolioName_asCaptured(repoName) ==
  LET match == PatternMatch(repoName) IN
  IF match.matched /\ match.g1 # <<>> THEN match.g1 ELSE repoName

extractPortfolioName(repoName) ==
  LET match == PatternMatch(repoName) IN
  IF match.matched /\ match.g1 # <<>>
  THEN UpperOfChar(match.g1[1]) \o SubSeq(match.g1, 2, Len(match.g1))
  ELSE repoName

(* ------------------------------------------------------------------ *)
(* String.prototype.localeCompare                                      *)
(* ------------------------------------------------------------------ *)
\* primary collation weight: other characters, then digits, then letters
\* without regard to case
PrimaryWeight(c) ==
  IF c \in DOMAIN DigitIndex THEN DigitIndex[c]
  ELSE IF c \in DOMAIN LowerIndex THEN Len(Digits) + LowerIndex[c]
  ELSE IF c \in DOMAIN UpperIndex THEN Len(Digits) + UpperIndex[c]
  ELSE 0

\* tertiary weight: a lower-case letter sorts before its upper-case letter
CaseWeight(c) == IF c \in DOMAIN UpperIndex THEN 1 ELSE 0

RECURSIVE CompareWeights(_, _)
CompareWeights(a, b) ==
  IF a = <<>> /\ b = <<>> THEN 0
  ELSE IF a = <<>> THEN -1
  ELSE IF b = <<>> THEN 1
  ELSE IF Head(a) < Head(b) THEN -1
  ELSE IF Head(a) > Head(b) THEN 1
  ELSE CompareWeights(Tail(a), Tail(b))

PrimaryKey(s) == [i \in DOMAIN s |-> PrimaryWeight(s[i])]
CaseKey(s) == [i \in DOMAIN s |-> CaseWeight(s[i])]

\* a.localeCompare(b) for strings a and b: negative, zero or positive
localeCompare(a, b) ==
  LET primary == CompareWeights(PrimaryKey(a), PrimaryKey(b)) IN
  IF primary # 0 THEN primary ELSE CompareWeights(CaseKey(a), CaseKey(b))

(* ------------------------------------------------------------------ *)
(* The sort of getAllPortfolios                                        *)
(* ------------------------------------------------------------------ *)
\* the comparator without its two featured tests
compareFn_nameOnly(a, b) ==
  localeCompare(JsToString(Get(a, "name")), JsToString(Get(b, "name")))

\* the comparator (a, b) => ...; the argument of localeCompare is converted
\* to a string, the receiver a.name is not (see SortCanThrow)
compareFn(a, b) ==
  IF Truthy(Get(a, "featured")) /\ ~Truthy(Get(b, "featured")) THEN -1
  ELSE IF ~Truthy(Get(a, "featured")) /\ Truthy(Get(b, "featured")) THEN 1
  ELSE localeCompare(JsToString(Get(a, "name")), JsToString(Get(b, "name")))

\* Array.prototype.sort is stable: an element goes after the elements that
\* do not compare greater than it
RECURSIVE InsertSorted(_, _)
InsertSorted(x, sorted) ==
  IF sorted = <<>> THEN <<x>>
  ELSE IF compareFn(x, Head(sorted)) < 0 THEN <<x>> \o sorted
  ELSE <<Head(sorted)>> \o InsertSorted(x, Tail(sorted))

RECURSIVE SortPortfolios(_)
SortPortfolios(arr) ==
  IF arr = <<>> THEN <<>>
  ELSE InsertSorted(arr[Len(arr)], SortPortfolios(SubSeq(arr, 1, Len(arr) - 1)))

\* a.name.localeCompare is not a function when a.name is not a string: the
\* comparator throws when it reaches that line with such an `a`, that is for
\* a pair of equal featuredness. Which element of a pair the engine passes
\* as `a` is implementation-defined, so the sort may or may not throw then.
SortCanThrow(arr) ==
  \E i, j \in DOMAIN arr :
    /\ i # j
    /\ Get(arr[i], "name").t # "str"
    /\ Truthy(Get(arr[i], "featured")) = Truthy(Get(arr[j], "featured"))

(* ------------------------------------------------------------------ *)
(* Provider responses and githubRequest                                *)
(* ------------------------------------------------------------------ *)
\* what fetch(this.apiEndpoint) can produce
NetworkError == [kind |-> "neterr"]
HttpError == [kind |-> "http"]
JsonResponse(value) == [kind |-> "json", body |-> value]
\* a text body, with whether JSON.parse accepts it and the value it denotes
TextResponse(valid, value) ==
  [kind |-> "text", body |-> [t |-> "text", valid |-> valid, json |-> value]]

Obj(fields) == [t |-> "obj", f |-> fields]

Thrown == [ok |-> FALSE]
Returned(value) == [ok |-> TRUE, value |-> value]

githubRequest(response) ==
  IF response.kind \in {"neterr", "http"} THEN Thrown
  ELSE Returned(response.body)

\* fetchRepositories without the Array.isArray test: a payload that is no
\* array reaches filterPortfolioRepos, as a thing without a name
fetchRepositories_noArrayTest(response) ==
  LET repos == githubRequest(response) IN
  IF repos.ok
  THEN IF repos.value.t = "arr" THEN repos.value.v ELSE <<repos.value>>
  ELSE <<>>

\* Array.isArray(repos) ? repos : [], and [] when the request threw
fetchRepositories(response) ==
  LET repos == githubRequest(response) IN
  IF repos.ok
  THEN IF repos.value.t = "arr" THEN repos.value.v ELSE <<>>
  ELSE <<>>

\* repo.name.match(...) throws when repo.name has no match method
FilterThrows(repos) ==
  \E i \in DOMAIN repos : Get(repos[i], "name").t # "str"

filterPortfolioRepos(repos) ==
  SelectSeq(repos, LAMBDA repo : PatternMatch(repo.name.v).matched)

\* JSON.parse of a text body
JSONparse(text) == IF text.valid THEN Returned(text.json) ELSE Thrown

fetchPortfolioConfig(response) ==
  LET data == githubRequest(response) IN
  IF ~data.ok THEN Null
  ELSE IF data.value.t = "text"
       THEN IF JSONparse(data.value).ok THEN JSONparse(data.value).value ELSE Null
       ELSE data.value

fetchReadme(response) ==
  LET data == githubRequest(response) IN
  IF data.ok THEN data.value ELSE Null

fetchRepoTree(response) ==
  LET tree == githubRequest(response) IN
  IF tree.ok THEN tree.value ELSE Null

\* config?.field
ConfigField(config, field) ==
  IF config.t = "obj" THEN Get(config.f, field) ELSE Undef

DefaultThumbnail(repo) ==
  Str(<<"https://raw.githubusercontent.com/">> \o githubOwner \o <<"/">>
      \o repo.name.v \o <<"/">>
      \o JsToString(Or(Get(repo, "default_branch"), Str(<<"main">>)))
      \o <<"/">> \o expectedFiles.thumbnail)

\* transformToPortfolio with the repository name, not the extracted name, as
\* the default display name
transformToPortfolio_repoName(repo, config) ==
  [name |-> Or(ConfigField(config, "name"), Str(repo.name.v)),
   slug |-> Str(toLowerCase(repo.name.v)),
   description |-> Or(ConfigField(config, "description"),
                      Or(Get(repo, "description"),
                         Str(<<"No description available">>))),
   repoUrl |-> Get(repo, "html_url"),
   homepage |-> Get(repo, "homepage"),
   stars |-> Get(repo, "stargazers_count"),
   forks |-> Get(repo, "forks_count"),
   updatedAt |-> Get(repo, "updated_at"),
   language |-> Get(repo, "language"),
   topics |-> Or(Get(repo, "topics"), EmptyArray),
   defaultBranch |-> Or(Get(repo, "default_branch"), Str(<<"main">>)),
   thumbnail |-> Or(ConfigField(config, "thumbnail"), DefaultThumbnail(repo)),
   isDynamic |-> JsTrue,
   featured |-> Or(ConfigField(config, "featured"), JsFalse),
   isPrivate |-> Or(Get(repo, "private"), JsFalse)]

\* transformToPortfolio with the slug made of the display name
transformToPortfolio_slugOfDisplayName(repo, config) ==
  LET portfolioName == extractPortfolioName(repo.name.v) IN
  [name |-> Or(ConfigField(config, "name"), Str(portfolioName)),
   slug |-> Str(toLowerCase(JsToString(Or(ConfigField(config, "name"),
                                          Str(portfolioName))))),
   description |-> Or(ConfigField(config, "description"),
                      Or(Get(repo, "description"),
                         Str(<<"No description available">>))),
   repoUrl |-> Get(repo, "html_url"),
   homepage |-> Get(repo, "homepage"),
   stars |-> Get(repo, "stargazers_count"),
   forks |-> Get(repo, "forks_count"),
   updatedAt |-> Get(repo, "updated_at"),
   language |-> Get(repo, "language"),
   topics |-> Or(Get(repo, "topics"), EmptyArray),
   defaultBranch |-> Or(Get(repo, "default_branch"), Str(<<"main">>)),
   thumbnail |-> Or(ConfigField(config, "thumbnail"), DefaultThumbnail(repo)),
   isDynamic |-> JsTrue,
   featured |-> Or(ConfigField(config, "featured"), JsFalse),
   isPrivate |-> Or(Get(repo, "private"), JsFalse)]

\* transformToPortfolio, given the value fetchPortfolioConfig resolved to
transformToPortfolio(repo, config) ==
  LET portfolioName == extractPortfolioName(repo.name.v) IN
  [name |-> Or(ConfigField(config, "name"), Str(portfolioName)),
   slug |-> Str(toLowerCase(repo.name.v)),
   description |-> Or(ConfigField(config, "description"),
                      Or(Get(repo, "description"),
                         Str(<<"No description available">>))),
   repoUrl |-> Get(repo, "html_url"),
   homepage |-> Get(repo, "homepage"),
   stars |-> Get(repo, "stargazers_count"),
   forks |-> Get(repo, "forks_count"),
   updatedAt |-> Get(repo, "updated_at"),
   language |-> Get(repo, "language"),
   topics |-> Or(Get(repo, "topics"), EmptyArray),
   defaultBranch |-> Or(Get(repo, "default_branch"), Str(<<"main">>)),
   thumbnail |-> Or(ConfigField(config, "thumbnail"), DefaultThumbnail(repo)),
   isDynamic |-> JsTrue,
   featured |-> Or(ConfigField(config, "featured"), JsFalse),
   isPrivate |-> Or(Get(repo, "private"), JsFalse)]

\* a find that keeps the last match
FindBySlug_last(portfolios, slug) ==
  LET found == {i \in DOMAIN portfolios : Get(portfolios[i], "slug") = slug} IN
  IF found = {} THEN Undef
  ELSE portfolios[CHOOSE i \in found : \A j \in found : j <= i]

\* portfolios.find(p => p.slug === slug): the first match, or undefined
RECURSIVE FindBySlug(_, _)
FindBySlug(portfolios, slug) ==
  IF portfolios = <<>> THEN Undef
  ELSE IF Get(Head(portfolios), "slug") = slug THEN Head(portfolios)
  ELSE FindBySlug(Tail(portfolios), slug)

(* ------------------------------------------------------------------ *)
(* The provider: repositories and files behind /api/github             *)
(* ------------------------------------------------------------------ *)
NamePortfolioA == <<"p", "o", "r", "t", "f", "o", "l", "i", "o", "A">>
NamePortfolioACaps == <<"P", "o", "r", "t", "f", "o", "l", "i", "o", "A">>
NamePortfoliob == <<"p", "o", "r", "t", "f", "o", "l", "i", "o", "b">>
NameBarePrefix == <<"p", "o", "r", "t", "f", "o", "l", "i", "o">>
NameSite == <<"s", "i", "t", "e">>

\* repository descriptors as the list request returns them
RepoA ==
  [name |-> Str(NamePortfolioA), description |-> Str(<<"Repo A">>),
   html_url |-> Str(<<"https://github.com/Trizly-xyz/portfolioA">>),
   homepage |-> Str(<<"https://a.example">>),
   stargazers_count |-> Num(<<"3">>), forks_count |-> Num(<<"1">>),
   updated_at |-> Str(<<"2024-01-01T00:00:00Z">>),
   language |-> Str(<<"JavaScript">>), topics |-> Arr(<<Str(<<"bot">>)>>),
   default_branch |-> Str(<<"dev">>), private |-> JsTrue]
RepoACaps ==
  [name |-> Str(NamePortfolioACaps), description |-> Null,
   html_url |-> Str(<<"https://github.com/Trizly-xyz/PortfolioA">>),
   homepage |-> Null, stargazers_count |-> Num(<<"0">>),
   forks_count |-> Num(<<"0">>), updated_at |-> Str(<<"2024-02-02T00:00:00Z">>),
   language |-> Null, topics |-> Arr(<<>>),
   default_branch |-> Str(<<"main">>), private |-> JsFalse]
\* a descriptor with only a name
RepoB == [name |-> Str(NamePortfoliob)]
RepoSite == [name |-> Str(NameSite), default_branch |-> Str(<<"main">>)]
RepoBarePrefix == [name |-> Str(NameBarePrefix), default_branch |-> Str(<<"main">>)]
\* an array element that is no descriptor: it has no name
NamelessItem == [description |-> Str(<<"no name">>)]

\* contents of portfolio.json
ConfigFull ==
  Obj([name |-> Str(<<"c", "a", "t">>), description |-> Str(<<"From config">>),
       thumbnail |-> Str(<<"https://img.example/cat.png">>),
       featured |-> JsTrue])
ConfigFalsy ==
  Obj([name |-> Str(<<>>), description |-> Str(<<>>), thumbnail |-> Str(<<>>),
       featured |-> JsFalse])
ConfigEmpty == Obj([other |-> Str(<<"x">>)])
ConfigNumericName == Obj([name |-> Num(<<"7">>), featured |-> JsTrue])
ConfigFeaturedOnly == Obj([featured |-> JsTrue])

\* a provider state: the payload of the list request and the portfolio.json
\* of the repositories that have one
NoFile == HttpError
File(repoName, response) == [repo |-> repoName, response |-> response]
World(list, configs) == [list |-> list, configs |-> configs]

Worlds ==
  { \* the provider is down
    World(HttpError, {}),
    \* the list request answers with an object, not an array
    World(JsonResponse(Obj([message |-> Str(<<"Not Found">>)])), {}),
    \* no repository matches
    World(JsonResponse(Arr(<<RepoSite, RepoBarePrefix>>)), {}),
    \* an array that does not hold descriptors only
    World(JsonResponse(Arr(<<NamelessItem, RepoA>>)), {}),
    \* one matching repository, with every field in its portfolio.json
    World(JsonResponse(Arr(<<RepoSite, RepoA>>)),
          {File(NamePortfolioA, TextResponse(TRUE, ConfigFull))}),
    \* a portfolio.json whose fields are all falsy
    World(JsonResponse(Arr(<<RepoACaps>>)),
          {File(NamePortfolioACaps, JsonResponse(ConfigFalsy))}),
    \* a portfolio.json whose name is a number
    World(JsonResponse(Arr(<<RepoB, RepoSite>>)),
          {File(NamePortfoliob, TextResponse(TRUE, ConfigNumericName))}),
    \* two repositories whose names differ in case only; one portfolio.json
    \* is no JSON, the other sets featured only
    World(JsonResponse(Arr(<<RepoA, RepoACaps>>)),
          {File(NamePortfolioA, TextResponse(FALSE, Null)),
           File(NamePortfolioACaps, TextResponse(TRUE, ConfigFeaturedOnly))}),
    \* two repositories, listed in descending order of name; one
    \* portfolio.json has none of the fields, the other is the JSON text 5
    World(JsonResponse(Arr(<<RepoB, RepoA>>)),
          {File(NamePortfoliob, TextResponse(TRUE, ConfigEmpty)),
           File(NamePortfolioA, TextResponse(TRUE, Num(<<"5">>)))}),
    \* two repositories whose portfolio.json give them the same display name
    World(JsonResponse(Arr(<<RepoA, RepoB>>)),
          {File(NamePortfolioA, TextResponse(TRUE, ConfigFull)),
           File(NamePortfoliob, JsonResponse(ConfigFull))}) }

\* a request may also fail in transit, whatever the provider holds
ListResponses(world) == {NetworkError, world.list}
ConfigResponses(world, repoName) ==
  {NetworkError} \cup
    (IF \E f \in world.configs : f.repo = repoName
     THEN {f.response : f \in {g \in world.configs : g.repo = repoName}}
     ELSE {NoFile})
ReadmeResponses == {NetworkError, TextResponse(FALSE, Null)}
TreeResponses == {HttpError, JsonResponse(Obj([sha |-> Str(<<"abc">>)]))}

(* ------------------------------------------------------------------ *)
(* Bounds                                                              *)
(* ------------------------------------------------------------------ *)
\* calls of the public operations started in one behaviour
MaxCalls == 2
\* delays in one behaviour
MaxTicks == 2

\* the callers whose calls may overlap
Callers == {"c1", "c2"}
\* how long a caller waits before a call, and how long the provider takes to
\* answer the list request; Date.now() is read at the start of
\* getAllPortfolios only, so time that passes elsewhere shows nowhere else
Delays == {0, 1, cacheDuration}
Latencies == {0, cacheDuration}
\* the slugs callers ask for: a static one, a dynamic one (when the
\* repository is listed), and a repository name that is not lower case
SlugBloxy == Str(<<"b", "l", "o", "x", "y">>)
SlugPortfolioA == Str(toLowerCase(NamePortfolioA))
Operations ==
  {[op |-> "getAllPortfolios", arg |-> Undef]}
    \cup [op : {"getPortfolio"}, arg : {SlugPortfolioA, Str(NamePortfolioA)}]
    \cup [op : {"getPortfolioContent"}, arg : {SlugBloxy, SlugPortfolioA}]

(* ------------------------------------------------------------------ *)
(* State                                                               *)
(* ------------------------------------------------------------------ *)
VARIABLES
  clock,             \* Date.now()
  ticks,             \* clock advances so far
  provider,          \* what the provider holds
  staticPortfolios,  \* this.config.staticPortfolios
  cache,             \* this.cache: {data, timestamp}
  calls,             \* per caller: its latest call, with its locals and its I/O
  started,           \* calls started so far
  last,              \* the latest return of getAllPortfolios
  direct             \* the latest call of a helper method from outside

vars == <<clock, ticks, provider, staticPortfolios, cache, calls, started, last,
         direct>>

Millis(n) == [t |-> "int", n |-> n]
IsTruthy(x) == IF x.t = "int" THEN x.n # 0 ELSE Truthy(x)

Pending == [t |-> "pending"]
NoLast == [exists |-> FALSE]
NoDirect == [fn |-> "none"]

\* the constructor's this.cache
EmptyCache == [data |-> Null, timestamp |-> Null]

IdleCall ==
  [pc |-> "idle", op |-> "none", arg |-> Undef, now |-> 0,
   portfolioRepos |-> <<>>, pending |-> {}, dynamicPortfolios |-> <<>>,
   portfolios |-> <<>>, portfolio |-> Undef, readme |-> Pending, tree |-> Pending,
   outcome |-> "none", result |-> Undef,
   \* history of the call, for the properties
   requests |-> <<>>,           \* the requests it sent, in order
   alone |-> FALSE,             \* no other call was in flight when it started
   startTimestamp |-> Null,     \* this.cache.timestamp when it started
   startPopulated |-> FALSE,    \* this.cache.data was set when it started
   prev |-> NoLast,             \* the return of getAllPortfolios before it
   refreshed |-> FALSE,         \* it missed the cache
   wrote |-> FALSE,             \* it stored a cache record
   gotAll |-> FALSE,            \* its getAllPortfolios resolved, to portfolios
   listResponse |-> Pending, configResponses |-> <<>>,
   readmeResponse |-> Pending, treeResponse |-> Pending]

InFlight(call) == call.pc \notin {"idle", "done"}

\* a call that has completed is in the state its completion leads to and is
\* gone with the next step: its caller has the value
Retired(cs) == [c \in Callers |-> IF cs[c].pc = "done" THEN IdleCall ELSE cs[c]]

Init ==
  /\ clock = 0
  /\ ticks = 0
  /\ provider \in Worlds
  /\ staticPortfolios = ConfiguredStaticPortfolios
  /\ cache = EmptyCache
  /\ calls = [c \in Callers |-> IdleCall]
  /\ started = 0
  /\ last = NoLast
  /\ direct = NoDirect

(* ------------------------------------------------------------------ *)
(* Requests                                                            *)
(* ------------------------------------------------------------------ *)
ListRequest == [endpoint |-> "repos"]
\* the body githubRequest('raw', {repo, path, branch}) sends
RawRequest(repo, path) ==
  [endpoint |-> "raw", repo |-> repo.name, path |-> path,
   branch |-> Or(Get(repo, "default_branch"), Str(<<"main">>))]
TreeRequest(repo) ==
  [endpoint |-> "tree", repo |-> repo.name,
   branch |-> Or(Get(repo, "default_branch"), Str(<<"main">>))]

(* ------------------------------------------------------------------ *)
(* getAllPortfolios and what its callers do with its value             *)
(* ------------------------------------------------------------------ *)
\* the hit test with <= for <
CacheHit_inclusive(record, now) ==
  /\ IsTruthy(record.data)
  /\ IsTruthy(record.timestamp)
  /\ now - record.timestamp.n <= cacheDuration

\* this.cache.data && this.cache.timestamp && (now - timestamp < cacheDuration)
CacheHit(record, now) ==
  /\ IsTruthy(record.data)
  /\ IsTruthy(record.timestamp)
  /\ now - record.timestamp.n < cacheDuration

\* a store of the data alone: this.cache.data = allPortfolios
CacheRecord_dataOnly(allPortfolios, now) ==
  [data |-> Arr(allPortfolios), timestamp |-> cache.timestamp]

\* this.cache = {data: allPortfolios, timestamp: now}
CacheRecord(allPortfolios, now) ==
  [data |-> Arr(allPortfolios), timestamp |-> Millis(now)]

\* [...this.config.staticPortfolios, ...dynamicPortfolios]
Combine(statics, dynamics) == statics \o dynamics

\* the test without !portfolio.isDynamic
HasContent_anyEntry(portfolio) == portfolio # Undef

\* !(!portfolio || !portfolio.isDynamic)
HasContent(portfolio) ==
  portfolio # Undef /\ Truthy(Get(portfolio, "isDynamic"))

\* the rest of the operation once getAllPortfolios has resolved to portfolios:
\* getAllPortfolios returns it, getPortfolio finds the slug in it,
\* getPortfolioContent returns null or requests the README and the tree
AfterGetAll(call, portfolios) ==
  LET portfolio == FindBySlug(portfolios, call.arg)
      repo == [name |-> call.arg, default_branch |-> Get(portfolio, "defaultBranch")]
      got == [call EXCEPT !.gotAll = TRUE, !.portfolios = portfolios]
  IN
  IF call.op = "getAllPortfolios"
  THEN [got EXCEPT !.pc = "done", !.outcome = "returned",
                   !.result = Arr(portfolios)]
  ELSE IF call.op = "getPortfolio"
  THEN [got EXCEPT !.pc = "done", !.outcome = "returned", !.result = portfolio]
  ELSE IF ~HasContent(portfolio)
  THEN [got EXCEPT !.pc = "done", !.outcome = "returned", !.result = Null,
                   !.portfolio = portfolio]
  ELSE [got EXCEPT !.pc = "awaitContent", !.portfolio = portfolio,
                   !.requests = @ \o <<RawRequest(repo, expectedFiles.readme),
                                       TreeRequest(repo)>>]

\* time passes
Elapse(delay) ==
  /\ delay > 0 => ticks < MaxTicks
  /\ ticks' = IF delay > 0 THEN ticks + 1 ELSE ticks
  /\ clock' = clock + delay

\* a caller starts an operation: getAllPortfolios runs up to its first await
Call(c, operation, delay) ==
  LET alone == \A d \in Callers \ {c} : ~InFlight(calls[d])
      call == [IdleCall EXCEPT !.op = operation.op, !.arg = operation.arg,
                               !.now = clock', !.alone = alone,
                               !.startTimestamp = cache.timestamp,
                               !.startPopulated = IsTruthy(cache.data),
                               !.prev = IF alone THEN last ELSE NoLast]
  IN
  /\ ~InFlight(calls[c])
  \* callers are interchangeable: the second one is used for overlapping calls
  /\ c = "c2" => InFlight(calls["c1"])
  \* the other callers call getAllPortfolios only
  /\ c # "c1" => operation.op = "getAllPortfolios"
  /\ started < MaxCalls
  /\ started' = started + 1
  /\ Elapse(delay)
  /\ IF CacheHit(cache, clock')
     THEN /\ calls' = [Retired(calls) EXCEPT ![c] = AfterGetAll(call, cache.data.v)]
          /\ last' = [exists |-> TRUE, now |-> clock', refreshed |-> FALSE,
                      data |-> cache.data.v]
     ELSE /\ calls' = [Retired(calls) EXCEPT ![c] =
                         [call EXCEPT !.pc = "awaitRepos", !.refreshed = TRUE,
                                      !.requests = <<ListRequest>>]]
          /\ last' = last
  /\ UNCHANGED <<provider, staticPortfolios, cache, direct>>

\* the list request settles: fetchRepositories, filterPortfolioRepos, and one
\* transformToPortfolio per matching repository up to its config request
ReposResponse(c, response, delay) ==
  LET call == calls[c]
      repos == fetchRepositories(response)
      portfolioRepos == filterPortfolioRepos(repos)
  IN
  /\ call.pc = "awaitRepos"
  /\ response \in ListResponses(provider)
  /\ Elapse(delay)
  /\ IF FilterThrows(repos)
     THEN calls' = [Retired(calls) EXCEPT ![c] =
                      [call EXCEPT !.pc = "done", !.outcome = "threw",
                                   !.listResponse = response]]
     ELSE calls' = [Retired(calls) EXCEPT ![c] =
                      [call EXCEPT !.pc = "awaitConfigs",
                                   !.listResponse = response,
                                   !.portfolioRepos = portfolioRepos,
                                   !.pending = DOMAIN portfolioRepos,
                                   !.dynamicPortfolios = [i \in DOMAIN portfolioRepos |-> Pending],
                                   !.configResponses = [i \in DOMAIN portfolioRepos |-> Pending],
                                   !.requests = @ \o
                                      [i \in DOMAIN portfolioRepos |->
                                         RawRequest(portfolioRepos[i], expectedFiles.config)]]]
  /\ UNCHANGED <<provider, staticPortfolios, cache, started, last, direct>>

\* one config request settles, in any order: its transformToPortfolio resolves
ConfigResponse(c, i, response) ==
  LET call == calls[c]
      repo == call.portfolioRepos[i]
      config == fetchPortfolioConfig(response)
  IN
  /\ call.pc = "awaitConfigs"
  /\ i \in call.pending
  /\ response \in ConfigResponses(provider, repo.name.v)
  /\ calls' = [Retired(calls) EXCEPT ![c] =
                 [call EXCEPT !.pending = @ \ {i},
                              !.dynamicPortfolios[i] = transformToPortfolio(repo, config),
                              !.configResponses[i] = response]]
  /\ UNCHANGED <<clock, ticks, provider, staticPortfolios, cache, started, last, direct>>

\* [...this.config.staticPortfolios, ...dynamicPortfolios] is a new array and
\* sort reorders that array: the configured array is as it was
StaticsAfterSort(statics, sorted) == statics

\* Promise.all has resolved: merge, sort, store, return
Finish(c) ==
  LET call == calls[c]
      allPortfolios == Combine(staticPortfolios, call.dynamicPortfolios)
  IN
  /\ call.pc = "awaitConfigs"
  /\ call.pending = {}
  /\ \E throws \in (IF SortCanThrow(allPortfolios) THEN BOOLEAN ELSE {FALSE}) :
       IF throws
       THEN /\ calls' = [Retired(calls) EXCEPT ![c] =
                           [call EXCEPT !.pc = "done", !.outcome = "threw"]]
            /\ UNCHANGED <<staticPortfolios, cache, last>>
       ELSE LET sorted == SortPortfolios(allPortfolios) IN
            /\ staticPortfolios' = StaticsAfterSort(staticPortfolios, sorted)
            /\ cache' = CacheRecord(sorted, call.now)
            /\ calls' = [Retired(calls) EXCEPT ![c] =
                           AfterGetAll([call EXCEPT !.wrote = TRUE], sorted)]
            /\ last' = [exists |-> TRUE, now |-> call.now, refreshed |-> TRUE,
                        data |-> sorted]
  /\ UNCHANGED <<clock, ticks, provider, started, direct>>

\* the README request of getPortfolioContent settles
ReadmeResponse(c, response) ==
  /\ calls[c].pc = "awaitContent"
  /\ calls[c].readme = Pending
  /\ calls' = [Retired(calls) EXCEPT ![c].readme = fetchReadme(response),
                                     ![c].readmeResponse = response]
  /\ UNCHANGED <<clock, ticks, provider, staticPortfolios, cache, started, last, direct>>

\* the tree request of getPortfolioContent settles
TreeResponse(c, response) ==
  /\ calls[c].pc = "awaitContent"
  /\ calls[c].tree = Pending
  /\ calls' = [Retired(calls) EXCEPT ![c].tree = fetchRepoTree(response),
                                     ![c].treeResponse = response]
  /\ UNCHANGED <<clock, ticks, provider, staticPortfolios, cache, started, last, direct>>

\* {...portfolio, readme, tree}
WithContent(portfolio, readme, tree) ==
  [k \in DOMAIN portfolio \cup {"readme", "tree"} |->
     IF k = "readme" THEN readme ELSE IF k = "tree" THEN tree ELSE portfolio[k]]

\* Object.assign(portfolio, {readme, tree}) in place of the spread: the entry
\* that this.cache.data holds is the object written to
CacheAfterContent_assign(record, portfolio, readme, tree) ==
  IF record.data.t # "arr" THEN record
  ELSE [record EXCEPT !.data =
          Arr([i \in DOMAIN record.data.v |->
                 IF record.data.v[i] = portfolio
                 THEN WithContent(portfolio, readme, tree)
                 ELSE record.data.v[i]])]

\* the spread {...portfolio, readme, tree} makes a new object: the entries
\* that this.cache.data holds are as they were
CacheAfterContent(record, portfolio, readme, tree) == record

\* a race in place of the join: getPortfolioContent returns once the README
\* request has settled
FinishContent_raced(c) ==
  LET call == calls[c] IN
  /\ call.pc = "awaitContent"
  /\ call.readme # Pending
  /\ calls' = [Retired(calls) EXCEPT ![c] =
                 [call EXCEPT !.pc = "done", !.outcome = "returned",
                              !.result = WithContent(call.portfolio, call.readme, call.tree)]]
  /\ cache' = CacheAfterContent(cache, call.portfolio, call.readme, call.tree)
  /\ UNCHANGED <<clock, ticks, provider, staticPortfolios, started, last, direct>>

\* both have settled: getPortfolioContent returns
FinishContent(c) ==
  LET call == calls[c] IN
  /\ call.pc = "awaitContent"
  /\ call.readme # Pending
  /\ call.tree # Pending
  /\ calls' = [Retired(calls) EXCEPT ![c] =
                 [call EXCEPT !.pc = "done", !.outcome = "returned",
                              !.result = WithContent(call.portfolio, call.readme, call.tree)]]
  /\ cache' = CacheAfterContent(cache, call.portfolio, call.readme, call.tree)
  /\ UNCHANGED <<clock, ticks, provider, staticPortfolios, started, last, direct>>

Next ==
  \/ \E c \in Callers, operation \in Operations, delay \in Delays :
       Call(c, operation, delay)
  \/ \E c \in Callers, response \in ListResponses(provider), delay \in Latencies :
       ReposResponse(c, response, delay)
  \/ \E c \in Callers : \E i \in calls[c].pending :
       \E response \in ConfigResponses(provider, calls[c].portfolioRepos[i].name.v) :
         ConfigResponse(c, i, response)
  \/ \E c \in Callers : Finish(c)
  \/ \E c \in Callers, response \in ReadmeResponses : ReadmeResponse(c, response)
  \/ \E c \in Callers, response \in TreeResponses : TreeResponse(c, response)
  \/ \E c \in Callers : FinishContent(c)

Spec == Init /\ [][Next]_vars

(* ------------------------------------------------------------------ *)
(* The helper methods, called from outside                             *)
(* ------------------------------------------------------------------ *)
\* longest list handed to filterPortfolioRepos
MaxListLen == 2

\* repository names: the prefix in several letter cases, alone, not at the
\* start, followed by a line terminator, by a letter whose upper case is two
\* letters, by a digit
HelperNames ==
  { NamePortfolioA, NamePortfoliob, NameBarePrefix, NameSite,
    <<"P", "o", "R", "t", "F", "O", "l", "i", "O", "x", "Y">>,
    <<"p", "o", "r", "t", "f", "o", "l", "i", "o", "\n", "x">>,
    <<"p", "o", "r", "t", "f", "o", "l", "i", "o", "x", "\r">>,
    <<"p", "o", "r", "t", "f", "o", "l", "i", "o", "ß", "x">>,
    <<"p", "o", "r", "t", "f", "o", "l", "i", "o", "1">>,
    <<"x", "p", "o", "r", "t", "f", "o", "l", "i", "o", "A">> }
HelperRepos == {[name |-> Str(name)] : name \in HelperNames} \cup {NamelessItem}
HelperLists ==
  UNION {[1..n -> HelperRepos] : n \in 0..MaxListLen}

\* manager.extractPortfolioName(repoName)
ExtractCall(repoName) ==
  /\ direct' = [fn |-> "extractPortfolioName", input |-> repoName,
                outcome |-> "returned", output |-> extractPortfolioName(repoName)]
  /\ UNCHANGED <<clock, ticks, provider, staticPortfolios, cache, calls, started, last>>

\* manager.filterPortfolioRepos(repos)
FilterCall(repos) ==
  /\ direct' = IF FilterThrows(repos)
               THEN [fn |-> "filterPortfolioRepos", input |-> repos,
                     outcome |-> "threw", output |-> <<>>]
               ELSE [fn |-> "filterPortfolioRepos", input |-> repos,
                     outcome |-> "returned", output |-> filterPortfolioRepos(repos)]
  /\ UNCHANGED <<clock, ticks, provider, staticPortfolios, cache, calls, started, last>>

NextHelpers ==
  \/ \E repoName \in HelperNames : ExtractCall(repoName)
  \/ \E repos \in HelperLists : FilterCall(repos)

\* the helper methods read the pattern only: what the provider holds is of no
\* account to them
InitHelpers == Init /\ provider = World(HttpError, {})

SpecHelpers == InitHelpers /\ [][NextHelpers]_vars

(* ------------------------------------------------------------------ *)
(* Vocabulary of the properties                                        *)
(* ------------------------------------------------------------------ *)
Settled(call) == call.pc = "done"
Threw(call) == call.pc = "done" /\ call.outcome = "threw"

\* the requests of a call to one endpoint
RequestsTo(call, endpoint) ==
  {i \in DOMAIN call.requests : call.requests[i].endpoint = endpoint}
ReadmeRequests(call) ==
  {i \in RequestsTo(call, "raw") : call.requests[i].path = expectedFiles.readme}

\* the list request failed in transit, was refused, or did not bring an array
ListFailed(response) ==
  \/ response.kind \in {"neterr", "http"}
  \/ response.body.t # "arr"

\* the list request brought an array of descriptors (each has a name that is
\* a string), as the data model has it
ListOfDescriptors(response) ==
  /\ ~ListFailed(response)
  /\ \A i \in DOMAIN response.body.v : Get(response.body.v[i], "name").t = "str"

NamesMatching(response) ==
  {i \in DOMAIN response.body.v : PatternMatch(response.body.v[i].name.v).matched}

\* the config request failed, or brought text that is no JSON
ConfigFailed(response) ==
  \/ response.kind \in {"neterr", "http"}
  \/ response.kind = "text" /\ ~response.body.valid

\* the value of a portfolio.json that was fetched and parsed
ParsedConfig(response) ==
  IF response.kind = "text" THEN response.body.json ELSE response.body
ConfigHas(response, field) ==
  /\ ~ConfigFailed(response)
  /\ ParsedConfig(response).t = "obj"
  /\ field \in DOMAIN ParsedConfig(response).f

\* provider data as the data model has it: descriptors in the list, and a
\* display name that is a string in every portfolio.json
WithinDataModel(call) ==
  /\ call.listResponse # Pending
  /\ ListFailed(call.listResponse) \/ ListOfDescriptors(call.listResponse)
  /\ \A i \in DOMAIN call.configResponses :
       /\ call.configResponses[i] # Pending
       /\ ConfigHas(call.configResponses[i], "name")
            => ParsedConfig(call.configResponses[i]).f.name.t = "str"

\* featured before non-featured, and names in non-descending order among
\* neighbours of the same featuredness
InSortOrder(portfolios) ==
  /\ \A i, j \in DOMAIN portfolios :
       i < j => ~(~Truthy(Get(portfolios[i], "featured"))
                  /\ Truthy(Get(portfolios[j], "featured")))
  /\ \A i \in DOMAIN portfolios :
       (/\ i + 1 \in DOMAIN portfolios
        /\ Truthy(Get(portfolios[i], "featured"))
             = Truthy(Get(portfolios[i + 1], "featured")))
       => localeCompare(JsToString(portfolios[i].name),
                        JsToString(portfolios[i + 1].name)) <= 0

Occurrences(seq, x) == Cardinality({i \in DOMAIN seq : seq[i] = x})
IsPermutation(a, b) ==
  /\ Len(a) = Len(b)
  /\ \A i \in DOMAIN a : Occurrences(a, a[i]) = Occurrences(b, a[i])

DynamicEntries(portfolios) ==
  {i \in DOMAIN portfolios : Truthy(Get(portfolios[i], "isDynamic"))}

(* ------------------------------------------------------------------ *)
(* Properties                                                          *)
(* ------------------------------------------------------------------ *)

\* C1 (as claimed): of two calls of getAllPortfolios that do not overlap, the
\* first of which refreshed and returned, the second, started less than
\* cacheDuration after the first, sends no request and returns what the first
\* returned, whatever the clock showed at the first call.
C1_IdempotentWithinTtl ==
  \A c \in Callers :
    LET call == calls[c] IN
    (/\ call.pc # "idle"
     /\ call.op = "getAllPortfolios"
     /\ call.alone
     /\ call.prev.exists
     /\ call.prev.refreshed
     /\ call.now - call.prev.now < cacheDuration)
    => /\ call.requests = <<>>
       /\ call.pc = "done"
       /\ call.result = Arr(call.prev.data)

\* C2 (as claimed): no operation ends in an exception, whatever the provider
\* answers.
C2_NoErrorOutcome == \A c \in Callers : ~Threw(calls[c])

\* C3: a refresh whose list request fails, or whose list has no matching
\* name, returns exactly the static entries, in sort order, and that sequence
\* with the time of the call is the cache record.
C3_StaticOnlyOnListFailure ==
  \A c \in Callers :
    LET call == calls[c] IN
    (/\ call.refreshed
     /\ call.listResponse # Pending
     /\ \/ ListFailed(call.listResponse)
        \/ /\ ListOfDescriptors(call.listResponse)
           /\ NamesMatching(call.listResponse) = {})
    => /\ ~Threw(call)
       /\ call.gotAll =>
            /\ call.portfolios = ConfiguredStaticPortfolios
            /\ DynamicEntries(call.portfolios) = {}
            /\ InSortOrder(call.portfolios)
       /\ (Settled(call) /\ call.op # "getPortfolioContent") =>
            /\ call.gotAll
            /\ cache = [data |-> Arr(call.portfolios), timestamp |-> Millis(call.now)]

C3_Witness ==
  \E c \in Callers :
    /\ Settled(calls[c]) /\ calls[c].op = "getAllPortfolios" /\ calls[c].refreshed
    /\ ListOfDescriptors(calls[c].listResponse)
    /\ calls[c].listResponse.body.v # <<>>
    /\ NamesMatching(calls[c].listResponse) = {}
    /\ calls[c].result = Arr(ConfiguredStaticPortfolios)

\* C4: every sequence getAllPortfolios returns, and the one in the cache, is
\* in sort order (featured first, then by display name), and the sequence of a
\* refresh is a permutation of the static entries and the entries of its
\* repositories.
C4_SortOrder ==
  /\ IsTruthy(cache.data) => InSortOrder(cache.data.v)
  /\ \A c \in Callers :
       LET call == calls[c] IN
       call.gotAll =>
         /\ InSortOrder(call.portfolios)
         /\ call.refreshed =>
              IsPermutation(call.portfolios,
                            ConfiguredStaticPortfolios \o call.dynamicPortfolios)
         /\ (~call.refreshed /\ call.alone) => call.portfolios = call.prev.data

\* two dynamic entries had to change places, and one had to go before a
\* static entry
C4_Witness ==
  \E c \in Callers :
    LET call == calls[c] IN
    /\ call.gotAll /\ call.refreshed
    /\ Len(call.dynamicPortfolios) = 2
    /\ \E i, j \in DOMAIN call.portfolios :
         /\ i < j
         /\ call.portfolios[i] = call.dynamicPortfolios[2]
         /\ call.portfolios[j] = call.dynamicPortfolios[1]
    /\ \E i, j \in DOMAIN call.portfolios :
         /\ i < j
         /\ Truthy(Get(call.portfolios[i], "isDynamic"))
         /\ ~Truthy(Get(call.portfolios[j], "isDynamic"))

\* what the claims call the derived defaults of a repository
PlaceholderDescription == Str(<<"No description available">>)
DerivedName(repo) == Str(extractPortfolioName(repo.name.v))
DerivedDescription(repo) ==
  IF Truthy(Get(repo, "description")) THEN repo.description
  ELSE PlaceholderDescription
DerivedThumbnail(repo, entry) ==
  Str(<<"https://raw.githubusercontent.com/", "Trizly-xyz", "/">> \o repo.name.v
      \o <<"/">> \o entry.defaultBranch.v \o <<"/", "thumbnail.png">>)

\* the entries a call's transformations have produced so far
Transformed(call) ==
  {i \in DOMAIN call.dynamicPortfolios : call.dynamicPortfolios[i] # Pending}

\* C5: a refresh has one dynamic entry per matching repository, whether the
\* config request succeeds, fails or brings no JSON; an entry whose config
\* failed has the derived defaults; the result has as many entries as there
\* are static entries and matching repositories; and over provider data as
\* the data model has it the refresh returns.
C5_DegradeKeepsEntry ==
  \A c \in Callers :
    LET call == calls[c] IN
    call.refreshed =>
      /\ \A i \in Transformed(call) :
           LET repo == call.portfolioRepos[i]
               entry == call.dynamicPortfolios[i]
           IN ConfigFailed(call.configResponses[i]) =>
                /\ entry.name = DerivedName(repo)
                /\ entry.description = DerivedDescription(repo)
                /\ entry.thumbnail = DerivedThumbnail(repo, entry)
                /\ entry.featured = JsFalse
      /\ call.gotAll =>
           /\ ListOfDescriptors(call.listResponse) =>
                Len(call.portfolioRepos) = Cardinality(NamesMatching(call.listResponse))
           /\ Len(call.portfolios) = Len(ConfiguredStaticPortfolios) + Len(call.portfolioRepos)
           /\ Cardinality(DynamicEntries(call.portfolios)) = Len(call.portfolioRepos)
           /\ \A i \in DOMAIN call.portfolioRepos :
                Occurrences(call.portfolios, call.dynamicPortfolios[i])
                  = Occurrences(call.dynamicPortfolios, call.dynamicPortfolios[i])
      /\ (Settled(call) /\ WithinDataModel(call)) => call.outcome = "returned"

\* both config requests of a refresh failed, one in transit and one on text
\* that is no JSON, and the refresh returned five entries
C5_Witness ==
  \E c \in Callers :
    LET call == calls[c] IN
    /\ call.gotAll /\ call.refreshed
    /\ Len(call.portfolioRepos) = 2
    /\ \E i, j \in DOMAIN call.configResponses :
         /\ call.configResponses[i].kind = "neterr"
         /\ call.configResponses[j].kind = "text"
         /\ ConfigFailed(call.configResponses[j])
    /\ Len(call.portfolios) = 5

\* the entries of a sequence that have a slug, in order
WithSlug(portfolios, slug) ==
  {i \in DOMAIN portfolios : Get(portfolios[i], "slug") = slug}
Least(indices) == CHOOSE i \in indices : \A j \in indices : i <= j

\* a response of the README or the tree request that failed
ContentFailed(response) == response.kind \in {"neterr", "http"}

\* C7: getPortfolioContent returns null, and requests neither the README nor
\* the tree, when the slug has no entry or its entry is static; for a dynamic
\* entry it returns the entry's fields with readme and tree, each of which is
\* null exactly when its own request failed.
C7_ContentOfDynamicOnly ==
  \A c \in Callers :
    LET call == calls[c]
        found == WithSlug(call.portfolios, call.arg)
    IN
    (call.op = "getPortfolioContent" /\ call.gotAll) =>
      IF found = {} \/ ~Truthy(Get(call.portfolios[Least(found)], "isDynamic"))
      THEN /\ Settled(call)
           /\ call.outcome = "returned"
           /\ call.result = Null
           /\ ReadmeRequests(call) = {}
           /\ RequestsTo(call, "tree") = {}
      ELSE /\ Cardinality(ReadmeRequests(call)) = 1
           /\ Cardinality(RequestsTo(call, "tree")) = 1
           /\ Settled(call) =>
                LET entry == call.portfolios[Least(found)] IN
                /\ call.outcome = "returned"
                /\ call.readmeResponse # Pending
                /\ call.treeResponse # Pending
                /\ DOMAIN call.result = DOMAIN entry \cup {"readme", "tree"}
                /\ \A k \in DOMAIN entry : call.result[k] = entry[k]
                /\ call.result.readme =
                     IF ContentFailed(call.readmeResponse) THEN Null
                     ELSE call.readmeResponse.body
                /\ call.result.tree =
                     IF ContentFailed(call.treeResponse) THEN Null
                     ELSE call.treeResponse.body

\* a static slug that getAllPortfolios has, and null for it
C7_Witness ==
  \E c \in Callers :
    LET call == calls[c] IN
    /\ call.op = "getPortfolioContent" /\ Settled(call)
    /\ WithSlug(call.portfolios, call.arg) # {}
    /\ ~Truthy(Get(call.portfolios[Least(WithSlug(call.portfolios, call.arg))], "isDynamic"))
    /\ call.result = Null

\* a dynamic slug whose README request failed and whose tree request did not
C7_WitnessDynamic ==
  \E c \in Callers :
    LET call == calls[c] IN
    /\ call.op = "getPortfolioContent" /\ Settled(call)
    /\ call.readmeResponse # Pending /\ ContentFailed(call.readmeResponse)
    /\ call.treeResponse # Pending /\ ~ContentFailed(call.treeResponse)
    /\ call.result.readme = Null /\ call.result.tree # Null

\* the four fields a portfolio.json overlays, and what each falls back to
OverlayFields == {"name", "description", "thumbnail", "featured"}
Fallback(field, repo, entry) ==
  CASE field = "name" -> DerivedName(repo)
    [] field = "description" -> DerivedDescription(repo)
    [] field = "thumbnail" -> DerivedThumbnail(repo, entry)
    [] field = "featured" -> JsFalse

\* the entry fields that come from a descriptor field, by name
CopiedFields ==
  [repoUrl |-> "html_url", homepage |-> "homepage", stars |-> "stargazers_count",
   forks |-> "forks_count", updatedAt |-> "updated_at", language |-> "language"]
DefaultedFields ==
  [topics |-> "topics", defaultBranch |-> "default_branch", isPrivate |-> "private"]
DefaultOf(field) ==
  CASE field = "topics" -> EmptyArray
    [] field = "defaultBranch" -> Str(<<"main">>)
    [] field = "isPrivate" -> JsFalse

\* C8 (as claimed): with a parseable config, each overlaid field is the
\* config's value when the config has the field and the fallback otherwise;
\* the slug is the lower-cased repository name; every other field is copied
\* from the descriptor.
C8_ConfigFieldWins ==
  \A c \in Callers :
    LET call == calls[c] IN
    \A i \in Transformed(call) :
      LET repo == call.portfolioRepos[i]
          entry == call.dynamicPortfolios[i]
          response == call.configResponses[i]
      IN ~ConfigFailed(response) =>
           /\ \A field \in OverlayFields :
                entry[field] = IF ConfigHas(response, field)
                               THEN ParsedConfig(response).f[field]
                               ELSE Fallback(field, repo, entry)
           /\ entry.slug = Str(toLowerCase(repo.name.v))
           /\ \A field \in DOMAIN CopiedFields \cup DOMAIN DefaultedFields :
                entry[field] = Get(repo, (CopiedFields @@ DefaultedFields)[field])

ConfigHasTruthy(response, field) ==
  ConfigHas(response, field) /\ Truthy(ParsedConfig(response).f[field])

\* C8 (amended): with a parseable config, each overlaid field is the config's
\* value when the config has the field with a truthy value, and the fallback
\* otherwise; the slug is the lower-cased repository name; repoUrl, homepage,
\* stars, forks, updatedAt and language are copied from the descriptor;
\* topics, defaultBranch and isPrivate are copied when the descriptor has a
\* truthy value and are [], "main" and false otherwise; isDynamic is true.
C8_TruthyConfigFieldWins ==
  \A c \in Callers :
    LET call == calls[c] IN
    \A i \in Transformed(call) :
      LET repo == call.portfolioRepos[i]
          entry == call.dynamicPortfolios[i]
          response == call.configResponses[i]
      IN ~ConfigFailed(response) =>
           /\ \A field \in OverlayFields :
                entry[field] = IF ConfigHasTruthy(response, field)
                               THEN ParsedConfig(response).f[field]
                               ELSE Fallback(field, repo, entry)
           /\ entry.slug = Str(toLowerCase(repo.name.v))
           /\ \A field \in DOMAIN CopiedFields :
                entry[field] = Get(repo, CopiedFields[field])
           /\ \A field \in DOMAIN DefaultedFields :
                entry[field] = IF Truthy(Get(repo, DefaultedFields[field]))
                               THEN repo[DefaultedFields[field]]
                               ELSE DefaultOf(field)
           /\ entry.isDynamic = JsTrue

\* an entry built over a config that has all four fields, none truthy, and one
\* built over a config that has them all truthy
C8_Witness ==
  \E c \in Callers :
    \E i \in Transformed(calls[c]) :
      LET response == calls[c].configResponses[i] IN
      /\ \A field \in OverlayFields :
           ConfigHas(response, field) /\ ~ConfigHasTruthy(response, field)
      /\ calls[c].dynamicPortfolios[i].name = DerivedName(calls[c].portfolioRepos[i])

\* a cache record that has expired, or that was never stored, when a call starts
StaleAtStart(call) ==
  /\ call.startPopulated
  /\ call.startTimestamp.t = "int"
  /\ call.now - call.startTimestamp.n >= cacheDuration
EmptyAtStart(call) == ~call.startPopulated /\ call.startTimestamp = Null

\* C9: a call that starts alone on an expired record, or on an empty cache,
\* sends exactly one list request; when it returns, the cache record is its
\* sequence with its time, which is later than the time of the record it
\* replaced; and over provider data as the data model has it, it returns.
C9_RefreshAfterExpiry ==
  \A c \in Callers :
    LET call == calls[c] IN
    (call.pc # "idle" /\ call.alone /\ (StaleAtStart(call) \/ EmptyAtStart(call))) =>
      /\ call.refreshed
      /\ Cardinality(RequestsTo(call, "repos")) = 1
      /\ (Settled(call) /\ WithinDataModel(call)) =>
           /\ call.outcome = "returned"
           /\ call.wrote
      /\ (Settled(call) /\ call.gotAll /\ call.op # "getPortfolioContent") =>
           /\ cache = [data |-> Arr(call.portfolios), timestamp |-> Millis(call.now)]
           /\ StaleAtStart(call) => cache.timestamp.n > call.startTimestamp.n

\* a record stored at a time other than 0 had expired, and was replaced
C9_Witness ==
  \E c \in Callers :
    LET call == calls[c] IN
    /\ Settled(call) /\ call.op = "getAllPortfolios" /\ call.alone
    /\ StaleAtStart(call) /\ call.startTimestamp.n > 0
    /\ call.wrote
    /\ cache.timestamp.n = call.now

\* C10: getPortfolio returns the first entry of the sequence getAllPortfolios
\* returned whose slug is the argument, and undefined when there is none; of
\* several entries with the slug it is the first in sort order.
C10_FirstBySlug ==
  \A c \in Callers :
    LET call == calls[c]
        found == WithSlug(call.portfolios, call.arg)
    IN
    (call.op = "getPortfolio" /\ call.gotAll) =>
      /\ Settled(call)
      /\ call.outcome = "returned"
      /\ found = {} => call.result = Undef
      /\ found # {} =>
           /\ call.result = call.portfolios[Least(found)]
           /\ \A i \in found :
                /\ Truthy(Get(call.portfolios[i], "featured"))
                     => Truthy(Get(call.result, "featured"))
                /\ Truthy(Get(call.portfolios[i], "featured"))
                     = Truthy(Get(call.result, "featured"))
                   => localeCompare(JsToString(call.result.name),
                                    JsToString(call.portfolios[i].name)) <= 0

\* two entries have the slug; the one returned is the featured one, which the
\* list request had second
C10_Witness ==
  \E c \in Callers :
    LET call == calls[c] IN
    /\ call.op = "getPortfolio" /\ Settled(call) /\ call.refreshed
    /\ Cardinality(WithSlug(call.portfolios, call.arg)) = 2
    /\ call.result = call.dynamicPortfolios[2]
    /\ Truthy(call.result.featured)

\* the prefix "portfolio" in any letter case, followed by at least one character
PrefixLower == <<"p", "o", "r", "t", "f", "o", "l", "i", "o">>
PrefixUpper == <<"P", "O", "R", "T", "F", "O", "L", "I", "O">>
HasPrefixAndMore(name) ==
  /\ Len(name) >= 10
  /\ \A i \in 1..9 : name[i] \in {PrefixLower[i], PrefixUpper[i]}
\* the same, and no line terminator among the characters after the prefix
HasPrefixAndLine(name) ==
  /\ HasPrefixAndMore(name)
  /\ \A i \in 10..Len(name) : name[i] \notin {"\n", "\r"}

NamedDescriptors(repos) ==
  \A i \in DOMAIN repos : Get(repos[i], "name").t = "str"

\* C11 (as claimed): of a list of descriptors, filterPortfolioRepos returns
\* those whose name is the prefix "portfolio", in any letter case, followed by
\* at least one character, in their order, and has no error outcome.
C11_FilterByPrefix ==
  (direct.fn = "filterPortfolioRepos" /\ NamedDescriptors(direct.input)) =>
    /\ direct.outcome = "returned"
    /\ direct.output =
         SelectSeq(direct.input, LAMBDA repo : HasPrefixAndMore(repo.name.v))

\* C11 (amended): of a list of descriptors, filterPortfolioRepos returns
\* those whose name is the prefix "portfolio", in any letter case, followed by
\* at least one character, none of them a line terminator, in their order,
\* each as often as the list has it, and has no error outcome.
C11_FilterByPrefixOnOneLine ==
  (direct.fn = "filterPortfolioRepos" /\ NamedDescriptors(direct.input)) =>
    /\ direct.outcome = "returned"
    /\ direct.output =
         SelectSeq(direct.input, LAMBDA repo : HasPrefixAndLine(repo.name.v))

\* a list of a name in mixed case, a name with a line break after the prefix
\* and nothing else: the first is returned, alone
C11_Witness ==
  /\ direct.fn = "filterPortfolioRepos"
  /\ Len(direct.input) = 2
  /\ NamedDescriptors(direct.input)
  /\ direct.input[1].name.v[2] = "o" /\ direct.input[1].name.v[3] = "R"
  /\ HasPrefixAndMore(direct.input[2].name.v)
  /\ ~HasPrefixAndLine(direct.input[2].name.v)
  /\ direct.output = <<direct.input[1]>>

\* C19: extractPortfolioName returns a name that does not match the pattern
\* as it is, and of a name that matches, what follows the prefix with its
\* first character in upper case; it returns for every name and changes no
\* state.
C19_Extractor ==
  direct.fn = "extractPortfolioName" =>
    LET name == direct.input
        rest == SubSeq(name, 10, Len(name))
    IN
    /\ direct.outcome = "returned"
    /\ direct.output =
         IF HasPrefixAndLine(name)
         THEN toUpperCase(<<rest[1]>>) \o SubSeq(rest, 2, Len(rest))
         ELSE name
    /\ cache = EmptyCache
    /\ staticPortfolios = ConfiguredStaticPortfolios
    /\ calls = [c \in Callers |-> IdleCall]

\* a name in mixed case whose capture starts with a small letter
C19_Witness ==
  /\ direct.fn = "extractPortfolioName"
  /\ direct.input[3] = "R"
  /\ direct.input[10] = "x"
  /\ direct.output = <<"X", "Y">>

\* a refreshing getAllPortfolios (or the getPortfolio around it) has just
\* stored its record and returned
JustStored(call) ==
  /\ call.pc = "done" /\ call.wrote
  /\ call.op \in {"getAllPortfolios", "getPortfolio"}

\* C12 (as claimed): when a refreshing call stores its record and returns, the
\* stored timestamp is the time of the store, less than cacheDuration has
\* passed since it, and a call started at that instant takes the fast path,
\* whatever the latency and the clock.
C12_ValidWhenStored ==
  \A c \in Callers :
    JustStored(calls[c]) =>
      /\ cache.timestamp = Millis(clock)
      /\ clock - cache.timestamp.n < cacheDuration
      /\ CacheHit(cache, clock)

\* the record is empty, or a sorted array with a time
CacheWhole ==
  \/ cache = EmptyCache
  \/ /\ cache.data.t = "arr"
     /\ cache.timestamp.t = "int"
     /\ InSortOrder(cache.data.v)
     /\ \A i \in DOMAIN cache.data.v : cache.data.v[i] # Pending

\* a step that changes the record puts there all of one refresh: the static
\* entries and every entry of that refresh, sorted, with that refresh's time
CacheSwap ==
  cache' # cache =>
    \E c \in Callers :
      /\ calls[c].refreshed /\ ~calls[c].wrote /\ calls'[c].wrote
      /\ \A i \in DOMAIN calls[c].dynamicPortfolios :
           calls[c].dynamicPortfolios[i] # Pending
      /\ cache'.data.t = "arr"
      /\ IsPermutation(cache'.data.v,
                       ConfiguredStaticPortfolios \o calls[c].dynamicPortfolios)
      /\ InSortOrder(cache'.data.v)
      /\ cache'.timestamp = Millis(calls[c].now)

\* C13: under every interleaving the cache record is empty or is the whole
\* sorted result of one refresh with the timestamp of that refresh: every
\* step that changes it replaces data and timestamp together.
C13_AtomicSwap == []CacheWhole /\ [][CacheSwap]_vars

\* two refreshes overlap; one has stored its record, the other, which
\* started at another time, has not yet
C13_Witness ==
  \E c, d \in Callers :
    /\ calls[c].pc = "done" /\ calls[c].wrote
    /\ InFlight(calls[d]) /\ calls[d].refreshed
    /\ calls[d].now # calls[c].now
    /\ cache.timestamp = Millis(calls[c].now)

\* the content requests of a call have both settled
ContentSettled(call) ==
  /\ call.readmeResponse # Pending /\ call.readme # Pending
  /\ call.treeResponse # Pending /\ call.tree # Pending

\* C14: a refresh has neither stored its record nor resolved before the
\* config request of every matching repository has settled, and
\* getPortfolioContent has not returned content before both the README and
\* the tree request have settled, in either order.
C14_Joined ==
  \A c \in Callers :
    LET call == calls[c] IN
    /\ (call.refreshed /\ (call.wrote \/ call.gotAll)) =>
         /\ call.pending = {}
         /\ Len(call.configResponses) = Len(call.portfolioRepos)
         /\ \A i \in DOMAIN call.portfolioRepos :
              /\ call.configResponses[i] # Pending
              /\ call.dynamicPortfolios[i] # Pending
    /\ (/\ call.op = "getPortfolioContent" /\ call.pc = "done"
        /\ call.outcome = "returned" /\ call.result # Null)
       => ContentSettled(call)

\* a refresh with two config requests has resolved, and of the content
\* requests that followed the tree has settled before the README
C14_Witness ==
  \E c \in Callers :
    LET call == calls[c] IN
    /\ call.op = "getPortfolioContent" /\ call.pc = "awaitContent"
    /\ call.refreshed /\ call.wrote
    /\ Len(call.portfolioRepos) = 2
    /\ call.tree # Pending /\ call.readme = Pending

\* no entry of the cache record has the fields getPortfolioContent adds
CacheEntriesBare ==
  cache.data.t = "arr" =>
    \A i \in DOMAIN cache.data.v :
      DOMAIN cache.data.v[i] \cap {"readme", "tree"} = {}

\* the record changes only when a refresh stores its own
CacheChangesByRefreshOnly ==
  cache' # cache => \E c \in Callers : ~calls[c].wrote /\ calls'[c].wrote

\* a call that takes the fast path leaves the record as it is
FastPathKeepsCache ==
  \A c \in Callers :
    (~calls[c].gotAll /\ calls'[c].gotAll /\ ~calls'[c].refreshed)
      => cache' = cache

\* C15: the configured static entries stay as configured, in order and in
\* every field; the cache record changes only when a refresh replaces it
\* whole: getPortfolioContent adds no readme or tree to a cached entry, and a
\* fast-path call leaves the record unchanged.
C15_NoMutationInPlace ==
  /\ [](staticPortfolios = ConfiguredStaticPortfolios /\ CacheEntriesBare)
  /\ [][CacheChangesByRefreshOnly /\ FastPathKeepsCache]_vars

\* getPortfolioContent has returned an entry with readme and tree, and the
\* entry of that slug in the cache record has neither
C15_Witness ==
  \E c \in Callers :
    LET call == calls[c] IN
    /\ call.op = "getPortfolioContent" /\ call.pc = "done"
    /\ call.result # Null
    /\ "readme" \in DOMAIN call.result
    /\ cache.data.t = "arr"
    /\ \E i \in DOMAIN cache.data.v :
         /\ cache.data.v[i].slug = call.arg
         /\ "readme" \notin DOMAIN cache.data.v[i]

\* the README request and the tree request of a call
ContentRequests(call) == ReadmeRequests(call) \cup RequestsTo(call, "tree")

\* the repositories of a refresh whose entry is the one the call resolved to
BuiltFrom(call) ==
  {i \in DOMAIN call.portfolioRepos : call.dynamicPortfolios[i] = call.portfolio}

\* C16 (as claimed): the README and the tree request of getPortfolioContent
\* name the repository the entry was built from, by the name the list request
\* gave it, and the entry's default branch.
C16_ContentOfOwnRepository ==
  \A c \in Callers :
    LET call == calls[c] IN
    (/\ call.op = "getPortfolioContent" /\ call.refreshed /\ call.gotAll
     /\ ContentRequests(call) # {})
    => /\ BuiltFrom(call) # {}
       /\ \A r \in ContentRequests(call) :
            /\ \E i \in BuiltFrom(call) :
                 call.requests[r].repo = call.portfolioRepos[i].name
            /\ call.requests[r].branch = call.portfolio.defaultBranch

\* the names of the repositories the provider lists
ProviderLists(world) ==
  /\ world.list.kind = "json"
  /\ world.list.body.t = "arr"
  /\ \A i \in DOMAIN world.list.body.v : Get(world.list.body.v[i], "name").t = "str"
ProviderNames(world) ==
  [i \in DOMAIN world.list.body.v |-> world.list.body.v[i].name.v]

\* two names that are the same but for the case of their letters
SameLetter(x, y) ==
  \/ x = y
  \/ \E k \in DOMAIN LowerLetters : {x, y} = {LowerLetters[k], UpperLetters[k]}
SameButForCase(a, b) ==
  /\ Len(a) = Len(b)
  /\ \A i \in DOMAIN a : SameLetter(a[i], b[i])

SlugsDistinct(portfolios) ==
  \A i, j \in DOMAIN portfolios :
    i # j => Get(portfolios[i], "slug") # Get(portfolios[j], "slug")

\* the sequences getAllPortfolios has returned or holds
AllHaveDistinctSlugs ==
  /\ \A c \in Callers : calls[c].gotAll => SlugsDistinct(calls[c].portfolios)
  /\ cache.data.t = "arr" => SlugsDistinct(cache.data.v)

\* C17 (as claimed): with a provider whose repository names are pairwise
\* distinct strings, the slugs of every sequence getAllPortfolios returns are
\* pairwise distinct.
C17_SlugsDistinct ==
  (/\ ProviderLists(provider)
   /\ \A i, j \in DOMAIN ProviderNames(provider) :
        i # j => ProviderNames(provider)[i] # ProviderNames(provider)[j])
  => AllHaveDistinctSlugs

\* C17 (amended): with a provider whose repository names are pairwise
\* distinct strings even when the case of their letters is ignored, the slugs
\* of every sequence getAllPortfolios returns are pairwise distinct.
C17_SlugsDistinctIgnoringCase ==
  (/\ ProviderLists(provider)
   /\ \A i, j \in DOMAIN ProviderNames(provider) :
        i # j => ~SameButForCase(ProviderNames(provider)[i],
                                 ProviderNames(provider)[j]))
  => AllHaveDistinctSlugs

\* a sequence of five entries, two of them of repositories whose display name
\* is the same, has been returned
C17_Witness ==
  \E c \in Callers :
    LET call == calls[c] IN
    /\ call.pc = "done" /\ call.op = "getAllPortfolios" /\ call.gotAll
    /\ Len(call.portfolios) = 5
    /\ \E i, j \in DOMAIN call.portfolios :
         /\ i # j
         /\ Truthy(Get(call.portfolios[i], "isDynamic"))
         /\ Truthy(Get(call.portfolios[j], "isDynamic"))
         /\ call.portfolios[i].name = call.portfolios[j].name
    /\ SlugsDistinct(call.portfolios)

\* a step in which the timestamp of the record does not go back
TimestampNotBack ==
  (cache.timestamp.t = "int" /\ cache'.timestamp.t = "int")
    => cache'.timestamp.n >= cache.timestamp.n

\* C18 (as claimed): whatever the interleaving of refreshes that overlap, the
\* timestamp of the cache record never decreases.
C18_TimestampMonotone == [][TimestampNotBack]_vars

====
